---- MODULE Spec2Model ----
(***************************************************************************)
(* Restricted marker transfer contract: the escrow lifecycle of            *)
(* src/src/contract.rs (create, approve, reject, cancel) over the transfer *)
(* bucket of src/src/state.rs, with the payload validation of              *)
(* src/src/msg.rs.  The Asset Registry (markers) and the Ledger (bank      *)
(* balances) are the querier's state; the host runs one invocation at a    *)
(* time and dispatches the message a successful invocation returns.        *)
(***************************************************************************)
EXTENDS Integers, Sequences, FiniteSets, TLC

VARIABLES
    store,      \* the transfer bucket: key (id bytes) -> Transfer
    markers,    \* Asset Registry: denom -> marker, or NoMarker
    balances,   \* Ledger: account -> denom -> amount
    call,       \* the invocation the host has just run (request and result), or NoCall
    escrow      \* history: per id, the lifecycle phase and the instruction issued at creation

vars == <<store, markers, balances, call, escrow>>

----------------------------------------------------------------------------
(* Bounds of the model *)

MaxAmount == 2

\* the longest list of access grants a marker is given when is_marker_admin
\* is examined on its own
MaxGrants == 2

----------------------------------------------------------------------------
(* Principals, ids and denoms the invocations are drawn from *)

MOCK_CONTRACT_ADDR == "cosmos2contract"
SENDER == "sender_address"
ADMIN == "admin_address"
RECIPIENT == "transfer_to"

Callers == {SENDER, ADMIN, RECIPIENT}
Accounts == Callers \cup {MOCK_CONTRACT_ADDR}

TRANSFER_ID == "56253028-12f5-4d2a-a691-ebdfd2a7b865"
TRANSFER_ID_2 == "c13f8888-ca43-4a64-ab1b-1ca8d60aa49b"
Uuids == {TRANSFER_ID, TRANSFER_ID_2}
IdStrings == Uuids \cup {"fake-id"}

RESTRICTED_DENOM == "restricted_1"
OTHER_DENOM == "restricted_2"
Denoms == {RESTRICTED_DENOM, OTHER_DENOM}
DenomStrings == Denoms \cup {""}

ShortAddrs == {"", "x"}
RecipientStrings == {RECIPIENT} \cup ShortAddrs

Amounts == 0..MaxAmount

NoFunds == <<>>
FundsChoices == {NoFunds, <<[denom |-> RESTRICTED_DENOM, amount |-> 1]>>}

----------------------------------------------------------------------------
(* Results *)

NoError == [kind |-> "none", fields |-> <<>>]
ContractError(kind) == [kind |-> kind, fields |-> <<>>]
InvalidFields(fields) == [kind |-> "InvalidFields", fields |-> fields]

Ok(value) == [ok |-> TRUE, value |-> value, error |-> NoError]
Err(error) == [ok |-> FALSE, value |-> "none", error |-> error]

SeqToSet(s) == {s[i] : i \in DOMAIN s}

----------------------------------------------------------------------------
(* msg.rs: payload validation *)

UuidParseIsErr(id) == id \notin Uuids

Push(cond, field) == IF cond THEN <<field>> ELSE <<>>

ExecuteMsgValidateNoAmount(msg) ==
    LET invalid_fields ==
            IF msg.type = "transfer"
            THEN Push(UuidParseIsErr(msg.id), "id")
                 \o Push(msg.denom = "", "denom")
                 \o Push(msg.recipient = "", "recipient")
            ELSE Push(UuidParseIsErr(msg.id), "id")
    IN  IF Len(invalid_fields) = 0
        THEN Ok("unit")
        ELSE Err(InvalidFields(invalid_fields))

ExecuteMsgValidateFirstField(msg) ==
    LET invalid_fields ==
            IF msg.type = "transfer"
            THEN Push(UuidParseIsErr(msg.id), "id")
                 \o Push(msg.amount < 1, "amount")
                 \o Push(msg.denom = "", "denom")
                 \o Push(msg.recipient = "", "recipient")
            ELSE Push(UuidParseIsErr(msg.id), "id")
    IN  IF Len(invalid_fields) = 0
        THEN Ok("unit")
        ELSE Err(InvalidFields(<<Head(invalid_fields)>>))

ExecuteMsgValidate(msg) ==
    LET invalid_fields ==
            IF msg.type = "transfer"
            THEN Push(UuidParseIsErr(msg.id), "id")
                 \o Push(msg.amount < 1, "amount")
                 \o Push(msg.denom = "", "denom")
                 \o Push(msg.recipient = "", "recipient")
            ELSE Push(UuidParseIsErr(msg.id), "id")
    IN  IF Len(invalid_fields) = 0
        THEN Ok("unit")
        ELSE Err(InvalidFields(invalid_fields))

----------------------------------------------------------------------------
(* state.rs: the transfer bucket *)

TransferSenderFromPayload(id, sender, denom, amount, recipient) ==
    [id |-> id, sender |-> recipient, denom |-> denom, amount |-> amount,
     recipient |-> recipient]

Transfer(id, sender, denom, amount, recipient) ==
    [id |-> id, sender |-> sender, denom |-> denom, amount |-> amount,
     recipient |-> recipient]

AsBytes(id) == id

Some(value) == [is_some |-> TRUE, value |-> value]
None == [is_some |-> FALSE]

BucketMayLoad(s, key) == IF key \in DOMAIN s THEN Ok(Some(s[key])) ELSE Ok(None)

BucketLoadAnyRecord(s, key) ==
    IF key \in DOMAIN s THEN Ok(s[key])
    ELSE IF DOMAIN s # {} THEN Ok(s[CHOOSE k \in DOMAIN s : TRUE])
    ELSE Err(ContractError("NotFound"))

BucketLoad(s, key) ==
    IF key \in DOMAIN s THEN Ok(s[key]) ELSE Err(ContractError("NotFound"))

BucketSaveUnderNamespace(s, key, value) ==
    [k \in DOMAIN s \cup {"transfer"} |-> IF k = "transfer" THEN value ELSE s[k]]

BucketSave(s, key, value) ==
    [k \in DOMAIN s \cup {key} |-> IF k = key THEN value ELSE s[k]]

BucketRemoveAll(s, key) == <<>>

BucketRemoveNothing(s, key) == s

BucketRemove(s, key) == [k \in DOMAIN s \ {key} |-> s[k]]

----------------------------------------------------------------------------
(* The collaborators the handlers query *)

NoMarker == [marker_type |-> "none", permissions |-> <<>>]

AccessGrant(address, permissions) ==
    [address |-> address, permissions |-> permissions]

Marker(marker_type, permissions) ==
    [marker_type |-> marker_type, permissions |-> permissions]

FullAccess == <<"burn", "delete", "deposit", "admin", "mint", "withdraw">>

addr_validate_unchecked(human) == Ok(human)

addr_validate(human) ==
    IF human \in ShortAddrs THEN Err(ContractError("Std")) ELSE Ok(human)

get_marker_by_denom_or_empty(mk, denom) ==
    IF denom \in DOMAIN mk THEN Ok(mk[denom]) ELSE Ok(NoMarker)

get_marker_by_denom_of_first(mk, denom) ==
    IF RESTRICTED_DENOM \in DOMAIN mk /\ mk[RESTRICTED_DENOM] # NoMarker
    THEN Ok(mk[RESTRICTED_DENOM])
    ELSE Err(ContractError("Std"))

get_marker_by_denom(mk, denom) ==
    IF denom \in DOMAIN mk /\ mk[denom] # NoMarker
    THEN Ok(mk[denom])
    ELSE Err(ContractError("Std"))

query_balance_any_denom(bal, address, denom) ==
    IF address \in DOMAIN bal
    THEN Ok([denom |-> denom,
             amount |-> CHOOSE n \in {bal[address][d] : d \in DOMAIN bal[address]} :
                            \A d \in DOMAIN bal[address] : n >= bal[address][d]])
    ELSE Ok([denom |-> denom, amount |-> 0])

query_balance(bal, address, denom) ==
    IF address \in DOMAIN bal /\ denom \in DOMAIN bal[address]
    THEN Ok([denom |-> denom, amount |-> bal[address][denom]])
    ELSE Ok([denom |-> denom, amount |-> 0])

transfer_marker_coins(amount, denom, to, from) ==
    IF amount = 0 \/ denom = "" \/ to = "" \/ from = ""
    THEN Err(ContractError("Std"))
    ELSE Ok([type |-> "transfer_marker_coins",
             coin |-> [denom |-> denom, amount |-> amount],
             to |-> to, from |-> from])

----------------------------------------------------------------------------
(* contract.rs: the handlers.  Each returns the Result of the call together *)
(* with the bucket as the handler leaves it and the writes it performed.    *)

Attr(key, value) == <<key, value>>

Success(attributes, messages, s, writes) ==
    [ok |-> TRUE, error |-> NoError, attributes |-> attributes,
     messages |-> messages, store |-> s, writes |-> writes]

FailureClearsStore(error, s, writes) ==
    [ok |-> FALSE, error |-> error, attributes |-> <<>>,
     messages |-> <<>>, store |-> <<>>, writes |-> writes]

Failure(error, s, writes) ==
    [ok |-> FALSE, error |-> error, attributes |-> <<>>,
     messages |-> <<>>, store |-> s, writes |-> writes]

ActionToStringDebug(action) == action

ActionToString(action) ==
    CASE action = "Transfer" -> "create_transfer"
      [] action = "Approve" -> "approve"
      [] action = "Reject" -> "reject"
      [] action = "Cancel" -> "cancel"

is_marker_admin_any_grant(sender, marker) ==
    \E g \in DOMAIN marker.permissions : marker.permissions[g].address = sender

is_marker_admin_or_transfer(sender, marker) ==
    \E g \in DOMAIN marker.permissions :
        /\ marker.permissions[g].address = sender
        /\ \E a \in DOMAIN marker.permissions[g].permissions :
               marker.permissions[g].permissions[a] \in {"admin", "transfer"}

is_marker_admin_first_access(sender, marker) ==
    \E g \in DOMAIN marker.permissions :
        /\ marker.permissions[g].address = sender
        /\ marker.permissions[g].permissions # <<>>
        /\ marker.permissions[g].permissions[1] = "admin"

is_marker_admin_restricted_only(sender, marker) ==
    /\ marker.marker_type = "restricted"
    /\ \E g \in DOMAIN marker.permissions :
           /\ marker.permissions[g].address = sender
           /\ \E a \in DOMAIN marker.permissions[g].permissions :
                  marker.permissions[g].permissions[a] = "admin"

is_marker_admin(sender, marker) ==
    \E g \in DOMAIN marker.permissions :
        /\ marker.permissions[g].address = sender
        /\ \E a \in DOMAIN marker.permissions[g].permissions :
               marker.permissions[g].permissions[a] = "admin"

IsRestrictedMarkerAnyType(mk, denom) == get_marker_by_denom(mk, denom).ok

IsRestrictedMarker(mk, denom) ==
    LET m == get_marker_by_denom(mk, denom)
    IN  m.ok /\ m.value.marker_type = "restricted"

FundsAttachedIgnored(info) == FALSE

FundsAttachedSeveralCoins(info) == Len(info.funds) > 1

FundsAttached(info) == info.funds # <<>>

DuplicateIdCheckSkipped(s, transfer) == FALSE

DuplicateIdCheckComparesRecord(s, transfer) ==
    BucketMayLoad(s, AsBytes(transfer.id)).value = Some(transfer)

DuplicateIdCheck(s, transfer) ==
    BucketMayLoad(s, AsBytes(transfer.id)).value.is_some

DuplicateIdErrorNamesAmount == InvalidFields(<<"amount">>)

DuplicateIdError == InvalidFields(<<"id">>)

CreateInstructionReversed(transfer, contract) ==
    transfer_marker_coins(transfer.amount, transfer.denom, transfer.sender, contract)

CreateInstruction(transfer, contract) ==
    transfer_marker_coins(transfer.amount, transfer.denom, contract, transfer.sender)

CancelInstruction(transfer, contract) ==
    transfer_marker_coins(transfer.amount, transfer.denom, transfer.sender, contract)

RejectInstructionToRecipient(transfer, contract) ==
    transfer_marker_coins(transfer.amount, transfer.denom, transfer.recipient, contract)

RejectInstruction(transfer, contract) ==
    transfer_marker_coins(transfer.amount, transfer.denom, transfer.sender, contract)

ApproveInstructionSwapped(transfer, contract) ==
    transfer_marker_coins(transfer.amount, transfer.denom, contract, transfer.recipient)

ApproveInstructionToSender(transfer, contract) ==
    transfer_marker_coins(transfer.amount, transfer.denom, transfer.sender, contract)

ApproveInstruction(transfer, contract) ==
    transfer_marker_coins(transfer.amount, transfer.denom, transfer.recipient, contract)

create_transfer_funds_first(s, mk, bal, contract, info, id, denom, amount, recipient) ==
    LET validated == addr_validate(recipient)
        transfer == Transfer(id, info.sender, denom, amount, validated.value)
        balance == query_balance(bal, info.sender, transfer.denom)
        saved == BucketSave(s, AsBytes(transfer.id), transfer)
        message == CreateInstruction(transfer, contract)
    IN  IF FundsAttached(info)
        THEN Failure(ContractError("SentFundsUnsupported"), s, <<>>)
        ELSE IF ~validated.ok THEN Failure(validated.error, s, <<>>)
        ELSE IF ~IsRestrictedMarker(mk, transfer.denom)
        THEN Failure(ContractError("UnsupportedMarkerType"), s, <<>>)
        ELSE IF ~balance.ok THEN Failure(balance.error, s, <<>>)
        ELSE IF balance.value.amount < transfer.amount
        THEN Failure(ContractError("InsufficientFunds"), s, <<>>)
        ELSE IF DuplicateIdCheck(s, transfer)
        THEN Failure(DuplicateIdError, s, <<>>)
        ELSE IF ~message.ok
        THEN Failure(message.error, saved, <<<<"save", AsBytes(transfer.id)>>>>)
        ELSE Success(<<Attr("action", ActionToString("Transfer")),
                       Attr("id", transfer.id),
                       Attr("denom", transfer.denom),
                       Attr("amount", ToString(transfer.amount)),
                       Attr("sender", transfer.sender),
                       Attr("recipient", transfer.recipient)>>,
                     <<message.value>>,
                     saved, <<<<"save", AsBytes(transfer.id)>>>>)

create_transfer(s, mk, bal, contract, info, id, denom, amount, recipient) ==
    LET validated == addr_validate(recipient)
        transfer == Transfer(id, info.sender, denom, amount, validated.value)
        balance == query_balance(bal, info.sender, transfer.denom)
        saved == BucketSave(s, AsBytes(transfer.id), transfer)
        message == CreateInstruction(transfer, contract)
    IN  IF ~validated.ok THEN Failure(validated.error, s, <<>>)
        ELSE IF ~IsRestrictedMarker(mk, transfer.denom)
        THEN Failure(ContractError("UnsupportedMarkerType"), s, <<>>)
        ELSE IF FundsAttached(info)
        THEN Failure(ContractError("SentFundsUnsupported"), s, <<>>)
        ELSE IF ~balance.ok THEN Failure(balance.error, s, <<>>)
        ELSE IF balance.value.amount < transfer.amount
        THEN Failure(ContractError("InsufficientFunds"), s, <<>>)
        ELSE IF DuplicateIdCheck(s, transfer)
        THEN Failure(DuplicateIdError, s, <<>>)
        ELSE IF ~message.ok
        THEN Failure(message.error, saved, <<<<"save", AsBytes(transfer.id)>>>>)
        ELSE Success(<<Attr("action", ActionToString("Transfer")),
                       Attr("id", transfer.id),
                       Attr("denom", transfer.denom),
                       Attr("amount", ToString(transfer.amount)),
                       Attr("sender", transfer.sender),
                       Attr("recipient", transfer.recipient)>>,
                     <<message.value>>,
                     saved, <<<<"save", AsBytes(transfer.id)>>>>)

CancelAuthorizedOrRecipient(info, transfer) ==
    info.sender = transfer.sender \/ info.sender = transfer.recipient

CancelAuthorized(info, transfer) == info.sender = transfer.sender

cancel_transfer_consults_registry(s, mk, bal, contract, info, transfer_id) ==
    LET loaded == BucketLoad(s, AsBytes(transfer_id))
        transfer == loaded.value
        marker == get_marker_by_denom(mk, transfer.denom)
        message == CancelInstruction(transfer, contract)
    IN  IF ~loaded.ok THEN Failure(ContractError("LoadTransferFailed"), s, <<>>)
        ELSE IF FundsAttached(info)
        THEN Failure(ContractError("SentFundsUnsupported"), s, <<>>)
        ELSE IF ~marker.ok THEN Failure(marker.error, s, <<>>)
        ELSE IF ~CancelAuthorized(info, transfer)
        THEN Failure(ContractError("Unauthorized"), s, <<>>)
        ELSE IF ~message.ok THEN Failure(message.error, s, <<>>)
        ELSE Success(<<Attr("action", ActionToString("Cancel")),
                       Attr("id", transfer.id),
                       Attr("denom", transfer.denom),
                       Attr("amount", ToString(transfer.amount)),
                       Attr("sender", transfer.sender)>>,
                     <<message.value>>,
                     BucketRemove(s, AsBytes(transfer_id)),
                     <<<<"remove", AsBytes(transfer_id)>>>>)

cancel_transfer(s, mk, bal, contract, info, transfer_id) ==
    LET loaded == BucketLoad(s, AsBytes(transfer_id))
        transfer == loaded.value
        message == CancelInstruction(transfer, contract)
    IN  IF ~loaded.ok THEN Failure(ContractError("LoadTransferFailed"), s, <<>>)
        ELSE IF FundsAttached(info)
        THEN Failure(ContractError("SentFundsUnsupported"), s, <<>>)
        ELSE IF ~CancelAuthorized(info, transfer)
        THEN Failure(ContractError("Unauthorized"), s, <<>>)
        ELSE IF ~message.ok THEN Failure(message.error, s, <<>>)
        ELSE Success(<<Attr("action", ActionToString("Cancel")),
                       Attr("id", transfer.id),
                       Attr("denom", transfer.denom),
                       Attr("amount", ToString(transfer.amount)),
                       Attr("sender", transfer.sender)>>,
                     <<message.value>>,
                     BucketRemove(s, AsBytes(transfer_id)),
                     <<<<"remove", AsBytes(transfer_id)>>>>)

reject_transfer(s, mk, bal, contract, info, transfer_id) ==
    LET loaded == BucketLoad(s, AsBytes(transfer_id))
        transfer == loaded.value
        marker == get_marker_by_denom(mk, transfer.denom)
        message == RejectInstruction(transfer, contract)
    IN  IF ~loaded.ok THEN Failure(ContractError("LoadTransferFailed"), s, <<>>)
        ELSE IF FundsAttached(info)
        THEN Failure(ContractError("SentFundsUnsupported"), s, <<>>)
        ELSE IF ~marker.ok THEN Failure(marker.error, s, <<>>)
        ELSE IF ~is_marker_admin(info.sender, marker.value)
        THEN Failure(ContractError("Unauthorized"), s, <<>>)
        ELSE IF ~message.ok THEN Failure(message.error, s, <<>>)
        ELSE Success(<<Attr("action", ActionToString("Reject")),
                       Attr("id", transfer.id),
                       Attr("denom", transfer.denom),
                       Attr("amount", ToString(transfer.amount)),
                       Attr("sender", transfer.sender),
                       Attr("admin", info.sender)>>,
                     <<message.value>>,
                     BucketRemove(s, AsBytes(transfer_id)),
                     <<<<"remove", AsBytes(transfer_id)>>>>)

approve_transfer(s, mk, bal, contract, info, transfer_id) ==
    LET loaded == BucketLoad(s, AsBytes(transfer_id))
        transfer == loaded.value
        marker == get_marker_by_denom(mk, transfer.denom)
        message == ApproveInstruction(transfer, contract)
    IN  IF ~loaded.ok THEN Failure(ContractError("LoadTransferFailed"), s, <<>>)
        ELSE IF FundsAttached(info)
        THEN Failure(ContractError("SentFundsUnsupported"), s, <<>>)
        ELSE IF ~marker.ok THEN Failure(marker.error, s, <<>>)
        ELSE IF ~is_marker_admin(info.sender, marker.value)
        THEN Failure(ContractError("Unauthorized"), s, <<>>)
        ELSE IF ~message.ok THEN Failure(message.error, s, <<>>)
        ELSE Success(<<Attr("action", ActionToString("Approve")),
                       Attr("id", transfer.id),
                       Attr("denom", transfer.denom),
                       Attr("amount", ToString(transfer.amount)),
                       Attr("sender", transfer.sender),
                       Attr("recipient", transfer.recipient),
                       Attr("admin", info.sender)>>,
                     <<message.value>>,
                     BucketRemove(s, AsBytes(transfer_id)),
                     <<<<"remove", AsBytes(transfer_id)>>>>)

execute(s, mk, bal, contract, info, msg) ==
    LET validation == ExecuteMsgValidate(msg)
    IN  IF ~validation.ok THEN Failure(validation.error, s, <<>>)
        ELSE CASE msg.type = "approve_transfer" ->
                      approve_transfer(s, mk, bal, contract, info, msg.id)
               [] msg.type = "cancel_transfer" ->
                      cancel_transfer(s, mk, bal, contract, info, msg.id)
               [] msg.type = "reject_transfer" ->
                      reject_transfer(s, mk, bal, contract, info, msg.id)
               [] msg.type = "transfer" ->
                      create_transfer(s, mk, bal, contract, info, msg.id,
                                      msg.denom, msg.amount, msg.recipient)

----------------------------------------------------------------------------
(* The environment: registry contents, ledger, and the requests drawn *)

MarkerChoices(denom) ==
    IF denom = RESTRICTED_DENOM
    THEN {NoMarker,
          Marker("restricted", <<AccessGrant(RECIPIENT, <<"transfer">>),
                                 AccessGrant(ADMIN, FullAccess)>>),
          Marker("restricted", <<AccessGrant(ADMIN, <<"transfer">>)>>),
          Marker("coin", <<AccessGrant(ADMIN, FullAccess)>>)}
    ELSE {Marker("restricted", <<AccessGrant(SENDER, FullAccess)>>)}

ExecuteMsgs ==
    [type : {"approve_transfer", "cancel_transfer", "reject_transfer"},
     id : IdStrings]
    \cup
    [type : {"transfer"}, id : IdStrings, denom : DenomStrings,
     amount : Amounts, recipient : RecipientStrings]

MessageInfo(sender, funds) == [sender |-> sender, funds |-> funds]

NoCall == [type |-> "none"]

NoInstruction == [type |-> "none"]

Resolutions == {"approve_transfer", "cancel_transfer", "reject_transfer"}

(* History of an id, kept from the results of the calls alone: the phase,   *)
(* the instruction the creating call returned, and how many resolutions     *)
(* have succeeded since that creation.                                       *)
Recorded(hist, msg, out) ==
    IF ~out.ok \/ msg.id \notin DOMAIN hist THEN hist
    ELSE IF msg.type = "transfer"
    THEN [hist EXCEPT ![msg.id] =
              [phase |-> "pending",
               instruction |-> IF out.messages = <<>> THEN NoInstruction
                               ELSE out.messages[1],
               released |-> 0]]
    ELSE [hist EXCEPT ![msg.id] =
              [phase |-> "resolved",
               instruction |-> NoInstruction,
               released |-> IF @.released < 2 THEN @.released + 1 ELSE 2]]

LedgerCovers(bal, m) ==
    /\ m.from \in DOMAIN bal /\ m.to \in DOMAIN bal
    /\ m.coin.denom \in DOMAIN bal[m.from]
    /\ bal[m.from][m.coin.denom] >= m.coin.amount

LedgerTransfer(bal, m) ==
    IF ~LedgerCovers(bal, m) \/ m.from = m.to THEN bal
    ELSE [bal EXCEPT ![m.from][m.coin.denom] = @ - m.coin.amount,
                     ![m.to][m.coin.denom] = @ + m.coin.amount]

RECURSIVE LedgerApply(_, _)
LedgerApply(bal, messages) ==
    IF messages = <<>> THEN bal
    ELSE LedgerApply(LedgerTransfer(bal, Head(messages)), Tail(messages))

----------------------------------------------------------------------------
(* The state machine *)

Init ==
    /\ store = <<>>
    /\ markers = [d \in Denoms |->
                     IF d = RESTRICTED_DENOM
                     THEN Marker("restricted",
                                 <<AccessGrant(RECIPIENT, <<"transfer">>),
                                   AccessGrant(ADMIN, FullAccess)>>)
                     ELSE Marker("restricted", <<AccessGrant(SENDER, FullAccess)>>)]
    /\ balances = [a \in Accounts |->
                      [d \in Denoms |->
                          IF a # SENDER THEN 0
                          ELSE IF d = RESTRICTED_DENOM THEN MaxAmount ELSE 1]]
    /\ call = NoCall
    /\ escrow = [id \in IdStrings |->
                    [phase |-> "never", instruction |-> NoInstruction, released |-> 0]]

(* One invocation of the execute entry point, run to completion. *)
Execute(caller, funds, msg) ==
    /\ call = NoCall
    /\ LET info == MessageInfo(caller, funds)
           out == execute(store, markers, balances, MOCK_CONTRACT_ADDR, info, msg)
       IN  /\ store' = out.store
           /\ call' = [type |-> msg.type, info |-> info, msg |-> msg,
                       ok |-> out.ok, error |-> out.error,
                       attributes |-> out.attributes,
                       messages |-> out.messages, writes |-> out.writes]
           /\ escrow' = Recorded(escrow, msg, out)
    /\ UNCHANGED <<markers, balances>>

(* The host ends the invocation: the Ledger runs the returned instruction. *)
Dispatch ==
    /\ call # NoCall
    /\ balances' = IF call.ok THEN LedgerApply(balances, call.messages) ELSE balances
    /\ call' = NoCall
    /\ UNCHANGED <<store, markers, escrow>>

(* Between invocations the registry changes a denom's marker. *)
SetMarker(denom, marker) ==
    /\ call = NoCall
    /\ marker # markers[denom]
    /\ markers' = [markers EXCEPT ![denom] = marker]
    /\ UNCHANGED <<store, balances, call, escrow>>

Next ==
    \/ \E caller \in Callers, funds \in FundsChoices, msg \in ExecuteMsgs :
           Execute(caller, funds, msg)
    \/ Dispatch
    \/ \E denom \in Denoms : \E marker \in MarkerChoices(denom) :
           SetMarker(denom, marker)

Spec == Init /\ [][Next]_vars

----------------------------------------------------------------------------
(* Vocabulary of the properties *)

\* This step is one invocation of execute: call' holds its request and result.
Invoked == call = NoCall /\ call' # NoCall

\* The request of call' passes every check create_transfer makes before the
\* duplicate-id check, stated on the state the call starts from.
CreatePassesEarlierChecks ==
    /\ call'.msg.id \in Uuids
    /\ call'.msg.amount >= 1
    /\ call'.msg.denom # ""
    /\ call'.msg.recipient \notin ShortAddrs
    /\ call'.msg.denom \in DOMAIN markers
    /\ markers[call'.msg.denom].marker_type = "restricted"
    /\ call'.info.funds = <<>>
    /\ balances[call'.info.sender][call'.msg.denom] >= call'.msg.amount

----------------------------------------------------------------------------

OneRecordPerId ==
    \A k1, k2 \in DOMAIN store : store[k1].id = store[k2].id => k1 = k2

CreateOnPendingFails ==
    (Invoked /\ call'.type = "transfer" /\ call'.msg.id \in DOMAIN store)
        => /\ ~call'.ok
           /\ call'.msg.id \in DOMAIN store'
           /\ store'[call'.msg.id] = store[call'.msg.id]

(* C1: the Store never holds two records with the same id, and a Create on  *)
(* an id that has a pending record never succeeds and leaves that record    *)
(* (id, sender, denom, amount, recipient) as it was, whatever the request.  *)
C1_Uniqueness == []OneRecordPerId /\ [][CreateOnPendingFails]_vars

\* A Create that reached the duplicate check with another denom than the
\* pending record's has been refused.
C1_Witness ==
    /\ call.type = "transfer"
    /\ ~call.ok
    /\ call.error = InvalidFields(<<"id">>)
    /\ call.msg.id \in DOMAIN store
    /\ store[call.msg.id].denom # call.msg.denom

----------------------------------------------------------------------------
(* C2 as stated: a Create on an id that has a pending record always fails   *)
(* with InvalidFields naming "id", for every caller, denom, amount,         *)
(* recipient, balance and registry state.                                   *)

C2_AlwaysInvalidFieldsId ==
    [][(Invoked /\ call'.type = "transfer" /\ call'.msg.id \in DOMAIN store)
          => /\ call'.error.kind = "InvalidFields"
             /\ "id" \in SeqToSet(call'.error.fields)]_vars

(* C2 amended: a Create on an id that has a pending record always fails; it *)
(* fails with InvalidFields ["id"] exactly when the request passes the      *)
(* earlier checks (valid payload and recipient, Restricted marker, no       *)
(* funds, balance covering the amount), and with another error otherwise.   *)

C2_DuplicateIdError ==
    [][(Invoked /\ call'.type = "transfer" /\ call'.msg.id \in DOMAIN store)
          => /\ ~call'.ok
             /\ CreatePassesEarlierChecks <=> call'.error = InvalidFields(<<"id">>)]_vars

\* A duplicate Create by the same caller with the same payload has been
\* refused with InvalidFields ["id"].
C2_Witness ==
    /\ call.type = "transfer"
    /\ call.error = InvalidFields(<<"id">>)
    /\ call.msg.id \in DOMAIN store
    /\ store[call.msg.id] = Transfer(call.msg.id, call.info.sender, call.msg.denom,
                                     call.msg.amount, call.msg.recipient)

----------------------------------------------------------------------------

ResolutionConserves ==
    (Invoked /\ call'.ok /\ call'.type \in Resolutions)
        => LET id == call'.msg.id
               created == escrow[id].instruction
           IN  /\ created # NoInstruction
               /\ Len(call'.messages) = 1
               /\ call'.messages[1].coin = created.coin
               /\ call'.messages[1].from = created.to
               /\ created.from = store[id].sender
               /\ call'.messages[1].to \in {store[id].sender, store[id].recipient}

(* C3: conservation.  The instruction a successful Approve, Reject or       *)
(* Cancel returns carries the denom and amount of the instruction returned  *)
(* when the transfer was created, leaves the account that instruction paid  *)
(* into, and pays the whole amount to the record's sender or recipient.     *)
C3_Conservation == [][ResolutionConserves]_vars

\* A transfer of more than one unit has been resolved.
C3_Witness ==
    /\ call.type \in Resolutions
    /\ call.ok
    /\ call.messages[1].coin.amount > 1
    /\ call.messages[1].to # call.info.sender

----------------------------------------------------------------------------
(* Who holds the Administrator capability, read from the registry itself *)

HoldsAdmin(principal, denom) ==
    /\ denom \in DOMAIN markers
    /\ \E i \in 1..Len(markers[denom].permissions) :
           /\ markers[denom].permissions[i].address = principal
           /\ "admin" \in SeqToSet(markers[denom].permissions[i].permissions)

HasMarker(denom) == denom \in DOMAIN markers /\ markers[denom] # NoMarker

DecidedByAdmin ==
    /\ Invoked
    /\ call'.type \in {"approve_transfer", "reject_transfer"}
    /\ call'.msg.id \in DOMAIN store
    /\ call'.info.funds = <<>>

(* C4 as stated: on a pending id with no funds attached, Approve and Reject *)
(* succeed iff the caller is an administrator of the record's denom at the  *)
(* time of the call, and every other caller gets Unauthorized, the record   *)
(* staying unchanged.                                                       *)

C4_OthersUnauthorized ==
    [][DecidedByAdmin
          => IF HoldsAdmin(call'.info.sender, store[call'.msg.id].denom)
             THEN call'.ok
             ELSE call'.error.kind = "Unauthorized" /\ store' = store]_vars

(* C4 amended: Approve and Reject succeed iff the caller is an              *)
(* administrator of the record's denom at the time of the call; every other *)
(* caller fails and the record stays unchanged, with Unauthorized when the  *)
(* registry has a marker for the denom and with the registry's query error  *)
(* when it has none.                                                        *)

C4_AdminDecides ==
    [][DecidedByAdmin
          => LET denom == store[call'.msg.id].denom
             IN  IF HoldsAdmin(call'.info.sender, denom)
                 THEN call'.ok
                 ELSE /\ ~call'.ok
                      /\ store' = store
                      /\ call'.error.kind =
                            IF HasMarker(denom) THEN "Unauthorized" ELSE "Std"]_vars

\* A caller whose grant on the record's denom lacks admin has been refused.
C4_Witness ==
    /\ call.type \in {"approve_transfer", "reject_transfer"}
    /\ call.error.kind = "Unauthorized"
    /\ call.msg.id \in DOMAIN store
    /\ ~HoldsAdmin(call.info.sender, store[call.msg.id].denom)
    /\ \E i \in 1..Len(markers[store[call.msg.id].denom].permissions) :
           markers[store[call.msg.id].denom].permissions[i].address = call.info.sender

----------------------------------------------------------------------------
(* C5: on a pending id with no funds attached, Cancel succeeds iff the      *)
(* caller is the record's sender; every other caller, an administrator of   *)
(* the denom and the recipient included, gets Unauthorized and the record   *)
(* stays unchanged.                                                         *)

C5_OnlySenderCancels ==
    [][(/\ Invoked
        /\ call'.type = "cancel_transfer"
        /\ call'.msg.id \in DOMAIN store
        /\ call'.info.funds = <<>>)
          => IF call'.info.sender = store[call'.msg.id].sender
             THEN call'.ok
             ELSE call'.error.kind = "Unauthorized" /\ store' = store]_vars

\* An administrator of the record's denom has been refused a Cancel.
C5_Witness ==
    /\ call.type = "cancel_transfer"
    /\ call.error.kind = "Unauthorized"
    /\ call.msg.id \in DOMAIN store
    /\ HoldsAdmin(call.info.sender, store[call.msg.id].denom)

----------------------------------------------------------------------------
(* C6 as stated: every execute call with funds attached fails with          *)
(* SentFundsUnsupported whatever its other parameters, changing nothing.    *)

C6_AlwaysSentFundsUnsupported ==
    [][(Invoked /\ call'.info.funds # <<>>)
          => call'.error.kind = "SentFundsUnsupported" /\ store' = store]_vars

\* The request of call' passes every check its handler makes before the
\* attached-funds check.
ReachesFundsCheck ==
    IF call'.type = "transfer"
    THEN /\ call'.msg.id \in Uuids
         /\ call'.msg.amount >= 1
         /\ call'.msg.denom # ""
         /\ call'.msg.recipient \notin ShortAddrs
         /\ call'.msg.denom \in DOMAIN markers
         /\ markers[call'.msg.denom].marker_type = "restricted"
    ELSE call'.msg.id \in Uuids /\ call'.msg.id \in DOMAIN store

(* C6 amended: every execute call with funds attached fails, changes        *)
(* nothing and returns no instruction; the error is SentFundsUnsupported    *)
(* when the call passes the checks made before the funds check (valid       *)
(* payload; for Create a valid recipient and a Restricted marker; for       *)
(* Approve, Reject and Cancel a pending record), else that check's error.   *)

C6_FundsNeverAccepted ==
    [][(Invoked /\ call'.info.funds # <<>>)
          => /\ ~call'.ok
             /\ store' = store
             /\ call'.messages = <<>>
             /\ ReachesFundsCheck <=> call'.error.kind = "SentFundsUnsupported"]_vars

\* An administrator's Approve of a pending record with funds attached has
\* been refused.
C6_Witness ==
    /\ call.type = "approve_transfer"
    /\ call.info.funds # <<>>
    /\ call.error.kind = "SentFundsUnsupported"
    /\ call.msg.id \in DOMAIN store
    /\ HoldsAdmin(call.info.sender, store[call.msg.id].denom)

----------------------------------------------------------------------------

ErrorKinds ==
    {"InvalidFields", "UnsupportedMarkerType", "SentFundsUnsupported",
     "InsufficientFunds", "LoadTransferFailed", "Unauthorized", "Std"}

FailureChangesNothing ==
    (Invoked /\ ~call'.ok)
        => /\ call'.error.kind \in ErrorKinds
           /\ store' = store
           /\ call'.writes = <<>>
           /\ call'.messages = <<>>

(* C7: all-or-nothing failure.  Whenever an invocation returns an error --  *)
(* one of the kinds of error.rs -- the Store is exactly as before the call, *)
(* the handler has written nothing and no instruction is returned.          *)
C7_AllOrNothing == [][FailureChangesNothing]_vars

\* A Create has failed with InsufficientFunds while another record is pending.
C7_Witness ==
    /\ call.type = "transfer"
    /\ call.error.kind = "InsufficientFunds"
    /\ store # <<>>
    /\ call.msg.id \notin DOMAIN store

----------------------------------------------------------------------------

OneMutationOneInstruction ==
    (Invoked /\ call'.ok)
        => LET id == call'.msg.id
           IN  /\ Len(call'.messages) = 1
               /\ Len(call'.writes) = 1
               /\ call'.writes[1][2] = id
               /\ \A k \in (DOMAIN store \cup DOMAIN store') \ {id} :
                      k \in DOMAIN store /\ k \in DOMAIN store' /\ store'[k] = store[k]
               /\ IF call'.type = "transfer"
                  THEN /\ call'.writes[1][1] = "save"
                       /\ id \notin DOMAIN store
                       /\ id \in DOMAIN store'
                  ELSE /\ call'.writes[1][1] = "remove"
                       /\ id \in DOMAIN store
                       /\ id \notin DOMAIN store'

(* C8: every successful invocation performs exactly one Store mutation, an  *)
(* insert under the requested id for Create and a delete under the          *)
(* requested id for Approve, Reject and Cancel, and returns exactly one     *)
(* instruction.                                                             *)
C8_ExactlyOneEffect == [][OneMutationOneInstruction]_vars

\* A record has been deleted by a successful call while another stays pending.
C8_Witness ==
    /\ call.type \in Resolutions
    /\ call.ok
    /\ Len(call.messages) = 1
    /\ store # <<>>

----------------------------------------------------------------------------

PresentIffPending ==
    \A id \in IdStrings : id \in DOMAIN store <=> escrow[id].phase = "pending"

LifecycleStep ==
    \A id \in DOMAIN store \cup DOMAIN store' :
        /\ (id \notin DOMAIN store /\ id \in DOMAIN store')
               => Invoked /\ call'.ok /\ call'.type = "transfer" /\ call'.msg.id = id
        /\ (id \in DOMAIN store /\ id \notin DOMAIN store')
               => Invoked /\ call'.ok /\ call'.type \in Resolutions /\ call'.msg.id = id

(* C9: per-id lifecycle.  A record appears under an id only by a successful *)
(* Create of that id and disappears only by a successful Approve, Reject or *)
(* Cancel of that id; so a record is in the Store exactly when it has been  *)
(* created and not yet resolved.                                            *)
C9_Lifecycle == []PresentIffPending /\ [][LifecycleStep]_vars

\* A Reject has just taken a created record out of the Store.
C9_Witness ==
    /\ call.type = "reject_transfer"
    /\ call.ok
    /\ call.msg.id \notin DOMAIN store
    /\ escrow[call.msg.id].phase = "resolved"

----------------------------------------------------------------------------

ReleasedAtMostOnce == \A id \in IdStrings : escrow[id].released <= 1

ResolvedStaysResolved ==
    (/\ Invoked
     /\ call'.type \in Resolutions
     /\ call'.msg.id \in DOMAIN escrow
     /\ escrow[call'.msg.id].phase = "resolved")
        => /\ ~call'.ok
           /\ call'.error.kind = "LoadTransferFailed"
           /\ call'.messages = <<>>
           /\ escrow' = escrow

(* C10: exactly-once resolution.  At most one Approve, Reject or Cancel     *)
(* succeeds per creation; once one has, every further Approve, Reject or    *)
(* Cancel of that id fails with LoadTransferFailed and returns no           *)
(* instruction, until the id is created again.                              *)
C10_ExactlyOnce == []ReleasedAtMostOnce /\ [][ResolvedStaysResolved]_vars

\* The record's sender has been refused a Cancel of a transfer already resolved.
C10_Witness ==
    /\ call.type = "cancel_transfer"
    /\ call.error.kind = "LoadTransferFailed"
    /\ call.info.funds = <<>>
    /\ escrow[call.msg.id].phase = "resolved"
    /\ escrow[call.msg.id].released = 1

----------------------------------------------------------------------------

\* Every pending record sits under its own id and still carries the sender,
\* denom and amount of the instruction its creating call returned.
StoredAsCreated ==
    \A k \in DOMAIN store :
        /\ store[k].id = k
        /\ escrow[k].instruction # NoInstruction
        /\ escrow[k].instruction.from = store[k].sender
        /\ escrow[k].instruction.coin.denom = store[k].denom
        /\ escrow[k].instruction.coin.amount = store[k].amount

\* No step rewrites a record that stays in the Store.
RecordsNeverRewritten ==
    \A k \in DOMAIN store \cap DOMAIN store' : store'[k] = store[k]

(* C11: immutability.  From its creation until its deletion a record keeps  *)
(* the id, sender, denom, amount and recipient it was created with: no      *)
(* invocation, successful or failed, on its id or another, changes a field  *)
(* of a record that remains in the Store.                                   *)
C11_Immutability == []StoredAsCreated /\ [][RecordsNeverRewritten]_vars

\* A second transfer has been created while an earlier record is pending
\* with the amount its own creation moved.
C11_Witness ==
    /\ call.type = "transfer"
    /\ call.ok
    /\ \E k \in DOMAIN store :
           /\ k # call.msg.id
           /\ escrow[k].instruction.coin.amount = store[k].amount
           /\ store[k].amount # call.msg.amount

----------------------------------------------------------------------------

\* The instruction that moves amount of denom between two accounts.
Moves(amount, denom, from, to) ==
    [type |-> "transfer_marker_coins",
     coin |-> [denom |-> denom, amount |-> amount],
     to |-> to, from |-> from]

CreateSucceeds ==
    (/\ Invoked
     /\ call'.type = "transfer"
     /\ CreatePassesEarlierChecks
     /\ call'.msg.id \notin DOMAIN store)
        => LET msg == call'.msg
               caller == call'.info.sender
           IN  /\ call'.ok
               /\ DOMAIN store' = DOMAIN store \cup {msg.id}
               /\ store'[msg.id] = [id |-> msg.id, sender |-> caller,
                                    denom |-> msg.denom, amount |-> msg.amount,
                                    recipient |-> msg.recipient]
               /\ call'.messages =
                      <<Moves(msg.amount, msg.denom, caller, MOCK_CONTRACT_ADDR)>>

(* C12: Create success.  When the payload is valid (well-formed id, amount  *)
(* of at least 1, non-empty denom, recipient a valid address), the denom's  *)
(* marker is Restricted, no funds are attached, the caller's balance of the *)
(* denom is at least the amount and no record exists under the id, Create   *)
(* succeeds, the Store then holds exactly the record (id, caller, denom,    *)
(* amount, recipient) under the id, and the single instruction moves the    *)
(* amount of the denom from the caller to the contract's own address.       *)
C12_CreateSuccess == [][CreateSucceeds]_vars

\* A transfer the caller addressed to itself has been created and its
\* instruction pays the contract.
C12_Witness ==
    /\ call.type = "transfer"
    /\ call.ok
    /\ call.msg.id \in DOMAIN store
    /\ store[call.msg.id].sender = store[call.msg.id].recipient
    /\ call.messages[1].to = MOCK_CONTRACT_ADDR

----------------------------------------------------------------------------

ApprovePaysRecipient ==
    (Invoked /\ call'.ok /\ call'.type = "approve_transfer")
        => LET id == call'.msg.id
           IN  /\ id \in DOMAIN store
               /\ id \notin DOMAIN store'
               /\ call'.messages =
                      <<Moves(store[id].amount, store[id].denom,
                              MOCK_CONTRACT_ADDR, store[id].recipient)>>

(* C13: a successful Approve deletes the record and its single instruction  *)
(* moves the record's amount of the record's denom from the contract's      *)
(* address to the record's recipient, whoever approved and whoever sent.    *)
C13_ApprovePaysRecipient == [][ApprovePaysRecipient]_vars

\* An administrator that is neither sender nor recipient has approved, and
\* the instruction pays neither the administrator nor the sender.
C13_Witness ==
    /\ call.type = "approve_transfer"
    /\ call.ok
    /\ call.msg.id \notin DOMAIN store
    /\ call.messages[1].to # call.info.sender
    /\ call.attributes[5][1] = "sender"
    /\ call.attributes[5][2] # call.messages[1].to

----------------------------------------------------------------------------

RefundPaysSender ==
    (Invoked /\ call'.ok /\ call'.type \in {"reject_transfer", "cancel_transfer"})
        => LET id == call'.msg.id
           IN  /\ id \in DOMAIN store
               /\ id \notin DOMAIN store'
               /\ call'.messages =
                      <<Moves(store[id].amount, store[id].denom,
                              MOCK_CONTRACT_ADDR, store[id].sender)>>

(* C14: a successful Reject and a successful Cancel each delete the record  *)
(* and return a single instruction that moves the record's amount of the    *)
(* record's denom from the contract's address back to the record's stored   *)
(* sender; for Reject that is the stored sender, not the administrator who  *)
(* made the call.                                                           *)
C14_RefundPaysSender == [][RefundPaysSender]_vars

\* An administrator other than the sender has rejected, and the instruction
\* pays the sender named in the attributes, not the caller.
C14_Witness ==
    /\ call.type = "reject_transfer"
    /\ call.ok
    /\ call.msg.id \notin DOMAIN store
    /\ call.messages[1].to # call.info.sender
    /\ call.messages[1].to = call.attributes[5][2]

----------------------------------------------------------------------------

\* The request of call' passes validate and its recipient is a valid address.
ValidCreatePayload ==
    /\ call'.msg.id \in Uuids
    /\ call'.msg.amount >= 1
    /\ call'.msg.denom # ""
    /\ call'.msg.recipient \notin ShortAddrs

\* The registry reports the denom as a Restricted marker.
ReportedRestricted(denom) ==
    denom \in DOMAIN markers /\ markers[denom].marker_type = "restricted"

(* C15 as stated: Create fails with UnsupportedMarkerType, storing nothing  *)
(* and issuing no instruction, whenever the registry does not report the    *)
(* denom as exactly a Restricted marker (no marker at all, or a marker of   *)
(* another type).                                                           *)

C15_AlwaysUnsupportedMarkerType ==
    [][(/\ Invoked
        /\ call'.type = "transfer"
        /\ ~ReportedRestricted(call'.msg.denom))
          => /\ call'.error.kind = "UnsupportedMarkerType"
             /\ store' = store
             /\ call'.messages = <<>>]_vars

(* C15 amended: a Create fails with UnsupportedMarkerType exactly when its  *)
(* payload is valid (well-formed id, amount of at least 1, non-empty denom, *)
(* recipient a valid address) and the registry does not report the denom as *)
(* a Restricted marker -- no marker at all or a marker of another type --   *)
(* whatever the funds, balance and Store; it then stores nothing and        *)
(* returns no instruction.                                                  *)

C15_UnsupportedMarkerType ==
    [][(Invoked /\ call'.type = "transfer")
          => /\ (ValidCreatePayload /\ ~ReportedRestricted(call'.msg.denom))
                    <=> call'.error = ContractError("UnsupportedMarkerType")
             /\ call'.error.kind = "UnsupportedMarkerType"
                    => store' = store /\ call'.messages = <<>>]_vars

\* A Create with funds attached on a denom the registry has no marker for
\* has been refused with UnsupportedMarkerType.
C15_Witness ==
    /\ call.type = "transfer"
    /\ call.error.kind = "UnsupportedMarkerType"
    /\ call.info.funds # <<>>
    /\ markers[call.msg.denom] = NoMarker

----------------------------------------------------------------------------

InsufficientIffBelow ==
    (/\ Invoked
     /\ call'.type = "transfer"
     /\ ValidCreatePayload
     /\ ReportedRestricted(call'.msg.denom)
     /\ call'.info.funds = <<>>)
        => /\ call'.error = ContractError("InsufficientFunds")
                  <=> balances[call'.info.sender][call'.msg.denom] < call'.msg.amount
           /\ call'.error.kind = "InsufficientFunds" => store' = store

(* C16: for a valid Create on a Restricted denom with no attached funds,    *)
(* the call fails with InsufficientFunds exactly when the caller's ledger   *)
(* balance of the denom at call time is strictly less than the amount; a    *)
(* balance equal to the amount is enough.  On InsufficientFunds the Store   *)
(* is unchanged.                                                            *)
C16_InsufficientFunds == [][InsufficientIffBelow]_vars

\* A Create for exactly the caller's whole balance of the denom has succeeded.
C16_Witness ==
    /\ call.type = "transfer"
    /\ call.ok
    /\ balances[call.info.sender][call.msg.denom] = call.msg.amount

----------------------------------------------------------------------------

AbsentRecordFailsFirst ==
    (/\ Invoked
     /\ call'.type \in Resolutions
     /\ call'.msg.id \in Uuids
     /\ call'.msg.id \notin DOMAIN store)
        => /\ call'.error = ContractError("LoadTransferFailed")
           /\ store' = store
           /\ call'.messages = <<>>

(* C17: Approve, Reject and Cancel on a well-formed id that has no pending  *)
(* record fail with LoadTransferFailed, whether or not funds are attached,  *)
(* whoever the caller is and whatever the registry holds: the load comes    *)
(* before the funds check and the authorization check.                      *)
C17_LoadFailsFirst == [][AbsentRecordFailsFirst]_vars

\* An Approve with funds attached, on an id with no record while another
\* record is pending, has been refused with LoadTransferFailed.
C17_Witness ==
    /\ call.type = "approve_transfer"
    /\ call.error.kind = "LoadTransferFailed"
    /\ call.info.funds # <<>>
    /\ call.msg.id \in Uuids
    /\ store # <<>>

----------------------------------------------------------------------------

FundsBeforeAuthorization ==
    (/\ Invoked
     /\ call'.type \in Resolutions
     /\ call'.msg.id \in DOMAIN store
     /\ call'.info.funds # <<>>)
        => /\ call'.error = ContractError("SentFundsUnsupported")
           /\ store' = store
           /\ call'.messages = <<>>

(* C18: for Approve, Reject and Cancel on a pending record the attached-    *)
(* funds check precedes the authorization check: a call with funds attached *)
(* fails with SentFundsUnsupported, not Unauthorized, whether the caller is *)
(* authorized or not, and the record stays unchanged.                       *)
C18_FundsBeforeAuthorization == [][FundsBeforeAuthorization]_vars

\* A Cancel with funds attached by a caller who is not the record's sender
\* has been refused with SentFundsUnsupported.
C18_Witness ==
    /\ call.type = "cancel_transfer"
    /\ call.info.funds # <<>>
    /\ call.error.kind = "SentFundsUnsupported"
    /\ call.msg.id \in DOMAIN store
    /\ call.info.sender # store[call.msg.id].sender

----------------------------------------------------------------------------

\* An Approve or Reject of a pending record by the record's sender or
\* recipient, who is not an administrator of the record's denom.
DecidedByPartyNotAdmin ==
    /\ Invoked
    /\ call'.type \in {"approve_transfer", "reject_transfer"}
    /\ call'.msg.id \in DOMAIN store
    /\ call'.info.sender \in {store[call'.msg.id].sender, store[call'.msg.id].recipient}
    /\ ~HoldsAdmin(call'.info.sender, store[call'.msg.id].denom)

(* C20 as stated: Reject and Approve called by the record's sender or       *)
(* recipient, when that principal is not an administrator of the record's   *)
(* denom, fail with Unauthorized and leave the record unchanged.            *)

C20_PartiesUnauthorized ==
    [][DecidedByPartyNotAdmin
          => call'.error.kind = "Unauthorized" /\ store' = store]_vars

(* C20 amended: Reject and Approve called by the record's sender or         *)
(* recipient, when that principal is not an administrator of the record's   *)
(* denom, always fail, return no instruction and leave the record           *)
(* unchanged; the error is SentFundsUnsupported when funds are attached,    *)
(* else the registry's query error when it has no marker for the denom,     *)
(* else Unauthorized.                                                       *)

C20_PartiesNeverDecide ==
    [][DecidedByPartyNotAdmin
          => /\ ~call'.ok
             /\ store' = store
             /\ call'.messages = <<>>
             /\ call'.error.kind =
                   IF call'.info.funds # <<>> THEN "SentFundsUnsupported"
                   ELSE IF ~HasMarker(store[call'.msg.id].denom) THEN "Std"
                   ELSE "Unauthorized"]_vars

\* The record's recipient, holding a transfer grant but not admin on the
\* record's denom, has been refused an Approve with Unauthorized.
C20_Witness ==
    /\ call.type = "approve_transfer"
    /\ call.error.kind = "Unauthorized"
    /\ call.msg.id \in DOMAIN store
    /\ call.info.sender = store[call.msg.id].recipient
    /\ call.info.sender # store[call.msg.id].sender
    /\ \E g \in DOMAIN markers[store[call.msg.id].denom].permissions :
           LET grant == markers[store[call.msg.id].denom].permissions[g]
           IN  grant.address = call.info.sender /\ grant.permissions = <<"transfer">>

----------------------------------------------------------------------------
(* is_marker_admin on its own: the registry holds any list of up to         *)
(* MaxGrants grants for the denom, and the check is run for each principal  *)
(* as approve_transfer and reject_transfer run it.                          *)

OtherAccess == <<"burn", "delete", "deposit", "mint", "transfer", "withdraw">>

AccessLists == {<<>>, <<"transfer">>, <<"admin">>, <<"transfer", "admin">>,
                OtherAccess, FullAccess}

GrantChoices == {AccessGrant(address, permissions) :
                    address \in Callers, permissions \in AccessLists}

GrantLists == UNION {[1..n -> GrantChoices] : n \in 0..MaxGrants}

InitAdmin ==
    /\ store = <<>>
    /\ \E grants \in GrantLists :
           markers = [d \in Denoms |->
                         IF d = RESTRICTED_DENOM THEN Marker("restricted", grants)
                         ELSE Marker("restricted", <<AccessGrant(SENDER, FullAccess)>>)]
    /\ balances = [a \in Accounts |-> [d \in Denoms |-> 0]]
    /\ call = NoCall
    /\ escrow = [id \in IdStrings |->
                    [phase |-> "never", instruction |-> NoInstruction, released |-> 0]]

CheckMarkerAdmin(sender, denom) ==
    /\ LET marker == get_marker_by_denom(markers, denom)
       IN  /\ marker.ok
           /\ call' = [type |-> "is_marker_admin", sender |-> sender,
                       denom |-> denom,
                       result |-> is_marker_admin(sender, marker.value)]
    /\ UNCHANGED <<store, markers, balances, escrow>>

NextAdmin == \E sender \in Callers, denom \in Denoms : CheckMarkerAdmin(sender, denom)

AdminSpec == InitAdmin /\ [][NextAdmin]_vars

\* The addresses that hold a grant whose permission list includes admin.
AdminGrantHolders(marker) ==
    {grant.address : grant \in {g \in SeqToSet(marker.permissions) :
                                    "admin" \in SeqToSet(g.permissions)}}

OtherCapabilities == {"transfer", "mint", "burn", "deposit", "withdraw", "delete"}

(* C19: the administrator check answers true if and only if the marker's    *)
(* grants contain a grant whose address equals the principal and whose      *)
(* permission list includes admin; when every grant to the principal holds  *)
(* only other capabilities (transfer, mint, burn, deposit, withdraw,        *)
(* delete) the answer is false, whatever is granted to other addresses.     *)
C19_AdminIffAdminGrant ==
    call.type = "is_marker_admin"
        => LET marker == markers[call.denom]
               mine == {g \in SeqToSet(marker.permissions) : g.address = call.sender}
           IN  /\ call.result <=> call.sender \in AdminGrantHolders(marker)
               /\ (\A g \in mine : SeqToSet(g.permissions) \subseteq OtherCapabilities)
                      => ~call.result

\* The check has answered false for a principal granted every capability
\* but admin, on a marker that grants admin to another address.
C19_Witness ==
    /\ call.type = "is_marker_admin"
    /\ ~call.result
    /\ \E g \in SeqToSet(markers[call.denom].permissions) :
           g.address = call.sender /\ SeqToSet(g.permissions) = OtherCapabilities
    /\ AdminGrantHolders(markers[call.denom]) # {}

----------------------------------------------------------------------------

IdReusable ==
    (/\ Invoked
     /\ call'.type = "transfer"
     /\ call'.msg.id \in DOMAIN escrow
     /\ escrow[call'.msg.id].phase = "resolved"
     /\ CreatePassesEarlierChecks)
        => LET msg == call'.msg
           IN  /\ msg.id \notin DOMAIN store
               /\ call'.ok
               /\ store'[msg.id] = [id |-> msg.id, sender |-> call'.info.sender,
                                    denom |-> msg.denom, amount |-> msg.amount,
                                    recipient |-> msg.recipient]
               /\ escrow'[msg.id].phase = "pending"
               /\ escrow'[msg.id].released = 0

(* C22: id reuse.  After the transfer under an id has been resolved by      *)
(* Approve, Reject or Cancel, a later Create with the same id that meets    *)
(* the other Create preconditions succeeds and stores a new record built    *)
(* from the new call's caller, denom, amount and recipient alone; nothing   *)
(* of the resolved record is left in the Store to carry over.               *)
C22_IdReuse == [][IdReusable]_vars

\* The recipient of an approved transfer has created a new transfer under
\* the id of the approved one, the only id ever used.
C22_Witness ==
    /\ call.type = "transfer"
    /\ call.ok
    /\ call.info.sender = RECIPIENT
    /\ store[call.msg.id].sender = RECIPIENT
    /\ \A id \in IdStrings \ {call.msg.id} : escrow[id].phase = "never"

----------------------------------------------------------------------------

\* The fields of an execute payload that are invalid.
InvalidFieldsOf(msg) ==
    {f \in {"id"} : msg.id \notin Uuids}
    \cup (IF msg.type # "transfer" THEN {}
          ELSE {f \in {"amount"} : msg.amount < 1}
               \cup {f \in {"denom"} : msg.denom = ""}
               \cup {f \in {"recipient"} : msg.recipient = ""})

ValidationFirst ==
    (Invoked /\ InvalidFieldsOf(call'.msg) # {})
        => /\ call'.error.kind = "InvalidFields"
           /\ SeqToSet(call'.error.fields) = InvalidFieldsOf(call'.msg)
           /\ Len(call'.error.fields) = Cardinality(InvalidFieldsOf(call'.msg))
           /\ store' = store
           /\ call'.writes = <<>>
           /\ call'.messages = <<>>

(* C23: payload validation runs before every other check of an execute     *)
(* call.  A Transfer message with an invalid field fails with InvalidFields *)
(* listing exactly the invalid fields among id (not a UUID), amount (less   *)
(* than 1), denom (empty) and recipient (empty), each once; an Approve,     *)
(* Cancel or Reject with an id that is not a UUID fails with InvalidFields  *)
(* ["id"]; this whatever the caller, the funds, the registry and the Store  *)
(* hold, and the Store is not written and no instruction is returned.       *)
C23_ValidationFirst == [][ValidationFirst]_vars

\* A Create with funds attached, on a pending id, with amount 0 and an empty
\* recipient has been refused with InvalidFields naming those two fields.
C23_Witness ==
    /\ call.type = "transfer"
    /\ call.error = InvalidFields(<<"amount", "recipient">>)
    /\ call.info.funds # <<>>
    /\ call.msg.id \in DOMAIN store

----------------------------------------------------------------------------

AuditAttributes ==
    (Invoked /\ call'.ok)
        => LET id == call'.msg.id
               caller == call'.info.sender
               record == IF call'.type = "transfer" THEN store'[id] ELSE store[id]
               action == CASE call'.type = "transfer" -> "create_transfer"
                           [] call'.type = "approve_transfer" -> "approve"
                           [] call'.type = "reject_transfer" -> "reject"
                           [] call'.type = "cancel_transfer" -> "cancel"
               common == <<<<"action", action>>,
                           <<"id", record.id>>,
                           <<"denom", record.denom>>,
                           <<"amount", ToString(record.amount)>>,
                           <<"sender", record.sender>>>>
               added == CASE call'.type = "transfer" ->
                                 <<<<"recipient", record.recipient>>>>
                          [] call'.type = "approve_transfer" ->
                                 <<<<"recipient", record.recipient>>, <<"admin", caller>>>>
                          [] call'.type = "reject_transfer" -> <<<<"admin", caller>>>>
                          [] call'.type = "cancel_transfer" -> <<>>
           IN  call'.attributes = common \o added

(* C25: audit attributes.  Every successful operation returns, in this      *)
(* order, action, id, denom, amount and sender taken from the record, with  *)
(* action equal to create_transfer, approve, reject or cancel according to  *)
(* the operation; Create then adds recipient (6 attributes), Approve adds   *)
(* recipient and admin = caller (7), Reject adds admin = caller (6) and     *)
(* Cancel adds nothing (5).                                                 *)
C25_AuditAttributes == [][AuditAttributes]_vars

\* An Approve has returned seven attributes whose admin is the caller and
\* whose sender and recipient are two other principals.
C25_Witness ==
    /\ call.type = "approve_transfer"
    /\ call.ok
    /\ Len(call.attributes) = 7
    /\ call.attributes[1] = <<"action", "approve">>
    /\ call.attributes[7] = <<"admin", call.info.sender>>
    /\ call.attributes[5][2] # call.attributes[6][2]
    /\ call.attributes[5][2] # call.info.sender
    /\ call.attributes[4] = <<"amount", "2">>

----------------------------------------------------------------------------

\* The failed invocation recorded in call, issued once more on the state it
\* left behind, with the same caller, payload and funds.
Reissued == execute(store, markers, balances, MOCK_CONTRACT_ADDR, call.info, call.msg)

(* C26: idempotent failure.  Re-issuing a failed execute operation (same    *)
(* caller, payload and attached funds, nothing else having happened in      *)
(* between) fails with the same error and leaves the Store as it is, so     *)
(* that any number of re-issues do the same.                                *)
C26_IdempotentFailure ==
    (call # NoCall /\ ~call.ok)
        => /\ ~Reissued.ok
           /\ Reissued.error = call.error
           /\ Reissued.store = store
           /\ Reissued.messages = <<>>

\* A Create on a pending id, asking for another amount than the pending
\* record's, has failed as a duplicate.
C26_Witness ==
    /\ call.type = "transfer"
    /\ call.error = InvalidFields(<<"id">>)
    /\ call.msg.id \in DOMAIN store
    /\ store[call.msg.id].amount # call.msg.amount

----------------------------------------------------------------------------
(* instantiate.rs and migrate.rs: the configuration and the contract        *)
(* version, kept in the contract's storage beside the transfer bucket.      *)

CRATE_NAME == "restricted_marker_transfer"

\* The version the crate is built at; migrate.rs's tests migrate to it from
\* 0.3.0, so it is not below that.
PACKAGE_VERSION == "0.3.1"

VersionStrings == {"0.2.0", "0.3.0", PACKAGE_VERSION, "999.0.0"}

\* semver::Version: parsing, printing and ordering
ParseVersion(s) ==
    CASE s = "0.2.0" -> <<0, 2, 0>>
      [] s = "0.3.0" -> <<0, 3, 0>>
      [] s = "0.3.1" -> <<0, 3, 1>>
      [] s = "999.0.0" -> <<999, 0, 0>>

VersionToString(v) ==
    ToString(v[1]) \o "." \o ToString(v[2]) \o "." \o ToString(v[3])

VersionLessOrEqual(a, b) ==
    \/ a[1] < b[1]
    \/ a[1] = b[1] /\ a[2] < b[2]
    \/ a[1] = b[1] /\ a[2] = b[2] /\ a[3] <= b[3]

VersionLess(a, b) ==
    \/ a[1] < b[1]
    \/ a[1] = b[1] /\ a[2] < b[2]
    \/ a[1] = b[1] /\ a[2] = b[2] /\ a[3] < b[3]

ConfigMigrationReqMatchesNone(v) == FALSE

\* VersionReq "<0.3.0"
ConfigMigrationReqMatches(v) == VersionLess(v, <<0, 3, 0>>)

CONFIG_KEY == "config"

to_length_prefixed(namespace) ==
    "\\0\\u{" \o ToString(Len(namespace)) \o "}" \o namespace

CONFIG == "config"
LEGACY_CONFIG == "\\0\\u{6}config"
CONTRACT == "contract_info"

State(name) == [name |-> name]

DebugFormat(state) == "State { name: \"" \o state.name \o "\" }"

ContractVersion(contract, version) == [contract |-> contract, version |-> version]

ItemMayLoad(s, key) == IF key \in DOMAIN s THEN Ok(Some(s[key])) ELSE Ok(None)

ItemLoad(s, key) == IF key \in DOMAIN s THEN Ok(s[key]) ELSE Err(ContractError("NotFound"))

ItemSave(s, key, value) ==
    [k \in DOMAIN s \cup {key} |-> IF k = key THEN value ELSE s[k]]

ItemRemove(s, key) == [k \in DOMAIN s \ {key} |-> s[k]]

get_contract_version(s) ==
    LET loaded == ItemLoad(s, CONTRACT)
    IN  IF loaded.ok THEN loaded ELSE Err(ContractError("Std"))

set_contract_version(s, contract, version) ==
    ItemSave(s, CONTRACT, ContractVersion(contract, version))

InstantiateMsgValidateAnyName(msg) == Ok("unit")

InstantiateMsgValidate(msg) ==
    LET invalid_fields == Push(msg.name = "", "name")
    IN  IF Len(invalid_fields) = 0
        THEN Ok("unit")
        ELSE Err(InvalidFields(invalid_fields))

instantiate(s, info, msg) ==
    LET validation == InstantiateMsgValidate(msg)
        contract_info == State(msg.name)
        saved == ItemSave(s, to_length_prefixed(CONFIG_KEY), contract_info)
        versioned == set_contract_version(saved, CRATE_NAME, PACKAGE_VERSION)
        loaded == ItemLoad(versioned, to_length_prefixed(CONFIG_KEY))
    IN  IF ~validation.ok THEN Failure(validation.error, s, <<>>)
        ELSE IF FundsAttached(info) THEN Failure(ContractError("Std"), s, <<>>)
        ELSE IF ~loaded.ok THEN Failure(ContractError("Std"), versioned, <<>>)
        ELSE Success(<<Attr("contract_info", DebugFormat(loaded.value)),
                       Attr("action", "init")>>,
                     <<>>, versioned,
                     <<<<"save", to_length_prefixed(CONFIG_KEY)>>, <<"save", CONTRACT>>>>)

UnsupportedUpgrade(source_version, target_version) ==
    [kind |-> "UnsupportedUpgrade", fields |-> <<>>,
     source_version |-> source_version, target_version |-> target_version]

\* A panic (unwrap on an Err) aborts the call; the host reports an error and
\* keeps the storage as it was.
Aborted(s) == Failure(ContractError("Aborted"), s, <<>>)

migrate(s) ==
    LET stored_contract_version == get_contract_version(s)
        new_version == ParseVersion(PACKAGE_VERSION)
        current_version == ParseVersion(stored_contract_version.value.version)
        config_present == ItemMayLoad(s, CONFIG)
        legacy == ItemLoad(s, LEGACY_CONFIG)
        copied == ItemRemove(ItemSave(s, CONFIG, legacy.value), LEGACY_CONFIG)
        copying == /\ ConfigMigrationReqMatches(current_version)
                   /\ ~config_present.value.is_some
        migrated == IF copying THEN copied ELSE s
    IN  IF ~stored_contract_version.ok
        THEN Failure(stored_contract_version.error, s, <<>>)
        ELSE IF stored_contract_version.value.contract # CRATE_NAME
        THEN Failure(ContractError("InvalidContractType"), s, <<>>)
        ELSE IF VersionLess(new_version, current_version)
        THEN Failure(UnsupportedUpgrade(stored_contract_version.value.version,
                                        VersionToString(new_version)), s, <<>>)
        ELSE IF copying /\ ~legacy.ok THEN Aborted(s)
        ELSE Success(<<>>, <<>>,
                     set_contract_version(migrated, CRATE_NAME, PACKAGE_VERSION),
                     (IF copying
                      THEN <<<<"save", CONFIG>>, <<"remove", LEGACY_CONFIG>>>>
                      ELSE <<>>) \o <<<<"save", CONTRACT>>>>)

----------------------------------------------------------------------------
(* contract.rs: the query entry point, and the specification in which the   *)
(* host also runs GetTransfer queries between the execute invocations.      *)

QueryMsgValidate(msg) ==
    LET invalid_fields ==
            IF msg.type = "get_transfer"
            THEN Push(UuidParseIsErr(msg.id), "id")
            ELSE <<>>
    IN  IF Len(invalid_fields) = 0
        THEN Ok("unit")
        ELSE Err(InvalidFields(invalid_fields))

to_binary_default(value) == [binary |-> Transfer("", "", "", 0, "")]

to_binary(value) == [binary |-> value]

from_binary(data) == data.binary

query(s, msg) ==
    LET validation == QueryMsgValidate(msg)
        loaded == CASE msg.type = "get_contract_info" ->
                           ItemLoad(s, to_length_prefixed(CONFIG_KEY))
                    [] msg.type = "get_version_info" -> get_contract_version(s)
                    [] msg.type = "get_transfer" -> BucketLoad(s, AsBytes(msg.id))
    IN  IF ~validation.ok THEN Err(validation.error)
        ELSE IF ~loaded.ok THEN Err(loaded.error)
        ELSE Ok(to_binary(loaded.value))

QueryMsgs == [type : {"get_transfer"}, id : IdStrings]

(* One invocation of the query entry point. *)
Query(msg) ==
    /\ call = NoCall
    /\ LET out == query(store, msg)
       IN  call' = [type |-> msg.type, msg |-> msg, ok |-> out.ok,
                    error |-> out.error, value |-> out.value]
    /\ UNCHANGED <<store, markers, balances, escrow>>

(* The host hands the answer of the query back. *)
QueryReturn ==
    /\ call.type = "get_transfer"
    /\ call' = NoCall
    /\ UNCHANGED <<store, markers, balances, escrow>>

QueryNext ==
    \/ \E caller \in Callers, funds \in FundsChoices, msg \in ExecuteMsgs :
           Execute(caller, funds, msg)
    \/ (call.type # "get_transfer" /\ Dispatch)
    \/ \E denom \in Denoms : \E marker \in MarkerChoices(denom) :
           SetMarker(denom, marker)
    \/ \E msg \in QueryMsgs : Query(msg)
    \/ QueryReturn

QuerySpec == Init /\ [][QueryNext]_vars

\* This step is one GetTransfer query: call' holds its request and answer.
Queried == call = NoCall /\ call'.type = "get_transfer"

(* C21 as stated: GetTransfer(id) returns the stored record when id is      *)
(* pending and a not-found error when it is not, and never changes the      *)
(* Store.                                                                   *)

C21_RecordOrNotFound ==
    [][Queried
          => /\ store' = store
             /\ IF call'.msg.id \in DOMAIN store
                THEN call'.ok /\ from_binary(call'.value) = store[call'.msg.id]
                ELSE call'.error.kind = "NotFound"]_vars

(* C21 amended: GetTransfer never changes the Store.  For a well-formed id  *)
(* it returns the stored record exactly as Create persisted it when the id  *)
(* is pending -- so right after a successful Create -- and a not-found      *)
(* error when it is not -- so right after a successful Approve, Reject or   *)
(* Cancel; for an id that is not a UUID it fails with InvalidFields ["id"]. *)

C21_QueryReflectsStore ==
    [][Queried
          => LET id == call'.msg.id
             IN  /\ store' = store
                 /\ id \in DOMAIN store
                       => /\ call'.ok
                          /\ from_binary(call'.value) = store[id]
                          /\ from_binary(call'.value).id = id
                          /\ from_binary(call'.value).sender = escrow[id].instruction.from
                          /\ from_binary(call'.value).denom = escrow[id].instruction.coin.denom
                          /\ from_binary(call'.value).amount = escrow[id].instruction.coin.amount
                 /\ (id \in Uuids /\ id \notin DOMAIN store)
                       => ~call'.ok /\ call'.error.kind = "NotFound"
                 /\ id \notin Uuids => call'.error = InvalidFields(<<"id">>)
                 /\ escrow[id].phase = "pending" => call'.ok
                 /\ escrow[id].phase = "resolved" => call'.error.kind = "NotFound"]_vars

\* A query of an id whose transfer has been resolved has answered not-found
\* while another record is pending.
C21_Witness ==
    /\ call.type = "get_transfer"
    /\ call.error.kind = "NotFound"
    /\ escrow[call.msg.id].phase = "resolved"
    /\ store # <<>>

----------------------------------------------------------------------------
(* The specification of the contract's setup: the host instantiates the     *)
(* contract on empty storage, or migrates a contract that an earlier build  *)
(* left deployed, and may query the configuration and version in between.   *)

ConfigNames == {"rmt", "please transfer me"}

InstantiateMsgs == [name : ConfigNames \cup {""}]

InfoQueryMsgs == [type : {"get_contract_info", "get_version_info"}]

NoStorage == <<>>

\* What a deployed contract holds: its configuration under the legacy key,
\* the new key or both, and the name and version of the build that wrote it.
DeployedConfigs ==
    {ItemSave(NoStorage, LEGACY_CONFIG, State(n)) : n \in ConfigNames}
    \cup {ItemSave(NoStorage, CONFIG, State(n)) : n \in ConfigNames}
    \cup {ItemSave(ItemSave(NoStorage, LEGACY_CONFIG, State(n)), CONFIG, State(m)) :
             n \in ConfigNames, m \in ConfigNames}

DeployedStorages ==
    {ItemSave(c, CONTRACT, ContractVersion(contract, version)) :
        c \in DeployedConfigs,
        contract \in {CRATE_NAME, "other_name"},
        version \in VersionStrings}

SetupInit ==
    /\ store \in {NoStorage} \cup DeployedStorages
    /\ markers = [d \in Denoms |-> Marker("restricted", <<AccessGrant(ADMIN, FullAccess)>>)]
    /\ balances = [a \in Accounts |-> [d \in Denoms |-> 0]]
    /\ call = NoCall
    /\ escrow = [id \in IdStrings |->
                    [phase |-> "never", instruction |-> NoInstruction, released |-> 0]]

(* One invocation of the instantiate entry point, on a new contract. *)
Instantiate(caller, funds, msg) ==
    /\ call = NoCall
    /\ store = NoStorage
    /\ LET info == MessageInfo(caller, funds)
           out == instantiate(store, info, msg)
       IN  /\ store' = out.store
           /\ call' = [type |-> "instantiate", info |-> info, msg |-> msg,
                       ok |-> out.ok, error |-> out.error,
                       attributes |-> out.attributes,
                       messages |-> out.messages, writes |-> out.writes]
    /\ UNCHANGED <<markers, balances, escrow>>

(* One invocation of the migrate entry point, on a deployed contract. *)
Migrate ==
    /\ call = NoCall
    /\ store # NoStorage
    /\ LET out == migrate(store)
       IN  /\ store' = out.store
           /\ call' = [type |-> "migrate", ok |-> out.ok, error |-> out.error,
                       attributes |-> out.attributes,
                       messages |-> out.messages, writes |-> out.writes]
    /\ UNCHANGED <<markers, balances, escrow>>

(* The host ends the invocation or hands the answer of the query back. *)
SetupReturn ==
    /\ call # NoCall
    /\ call' = NoCall
    /\ UNCHANGED <<store, markers, balances, escrow>>

SetupNext ==
    \/ \E caller \in Callers, funds \in FundsChoices, msg \in InstantiateMsgs :
           Instantiate(caller, funds, msg)
    \/ Migrate
    \/ \E msg \in InfoQueryMsgs : Query(msg)
    \/ SetupReturn

SetupSpec == SetupInit /\ [][SetupNext]_vars

----------------------------------------------------------------------------

\* This step is one invocation of migrate.
Migrated == call = NoCall /\ call'.type = "migrate"

\* The place of a version string in the order of versions.
VersionRank(version) ==
    CASE version = "0.2.0" -> 1
      [] version = "0.3.0" -> 2
      [] version = "0.3.1" -> 3
      [] version = "999.0.0" -> 4

MigrateGated ==
    Migrated
        => LET stored == store[CONTRACT]
           IN  IF stored.contract # CRATE_NAME
               THEN /\ call'.error.kind = "InvalidContractType"
                    /\ store' = store
               ELSE IF VersionRank(stored.version) > VersionRank(PACKAGE_VERSION)
               THEN /\ call'.error.kind = "UnsupportedUpgrade"
                    /\ call'.error.source_version = stored.version
                    /\ call'.error.target_version = PACKAGE_VERSION
                    /\ store' = store
               ELSE /\ call'.ok
                    /\ store'[CONTRACT] = [contract |-> CRATE_NAME,
                                           version |-> PACKAGE_VERSION]

VersionNeverDecreases ==
    (CONTRACT \in DOMAIN store /\ CONTRACT \in DOMAIN store')
        => /\ VersionRank(store'[CONTRACT].version) >= VersionRank(store[CONTRACT].version)
           /\ store'[CONTRACT].contract = store[CONTRACT].contract

(* C27: migrate is gated and never lowers the stored version.  It fails     *)
(* with InvalidContractType when the stored contract name differs from the  *)
(* crate name and with UnsupportedUpgrade when the stored version is        *)
(* greater than the package version, leaving the storage unchanged in both  *)
(* cases; otherwise it succeeds and the stored version is the package       *)
(* version.  Over any sequence of calls the stored version never decreases. *)
C27_MigrateGated == [][MigrateGated /\ VersionNeverDecreases]_vars

\* A migrate from a version above the package version has been refused and
\* the stored version is still that version.
C27_Witness ==
    /\ call.type = "migrate"
    /\ call.error.kind = "UnsupportedUpgrade"
    /\ store[CONTRACT] = [contract |-> CRATE_NAME, version |-> "999.0.0"]

----------------------------------------------------------------------------

LegacyConfigMoved ==
    (/\ Migrated
     /\ store[CONTRACT].contract = CRATE_NAME
     /\ VersionRank(store[CONTRACT].version) < VersionRank("0.3.0")
     /\ CONFIG \notin DOMAIN store
     /\ LEGACY_CONFIG \in DOMAIN store)
        => /\ call'.ok
           /\ CONFIG \in DOMAIN store'
           /\ store'[CONFIG] = store[LEGACY_CONFIG]
           /\ LEGACY_CONFIG \notin DOMAIN store'

NewConfigKept ==
    (Migrated /\ CONFIG \in DOMAIN store)
        => /\ CONFIG \in DOMAIN store'
           /\ store'[CONFIG] = store[CONFIG]
           /\ LEGACY_CONFIG \in DOMAIN store <=> LEGACY_CONFIG \in DOMAIN store'

----------------------------------------------------------------------------

\* This step is one invocation of instantiate.
Instantiated == call = NoCall /\ call'.type = "instantiate"

\* The configuration as GetContractInfo reads it from a storage.
ContractInfoOf(s) == query(s, [type |-> "get_contract_info"])

InstantiateOutcome ==
    Instantiated
        => LET name == call'.msg.name
           IN  /\ call'.ok <=> (name # "" /\ call'.info.funds = <<>>)
               /\ call'.ok
                     => /\ ContractInfoOf(store').ok
                        /\ from_binary(ContractInfoOf(store').value) = [name |-> name]
                        /\ store'[CONTRACT] = [contract |-> CRATE_NAME,
                                               version |-> PACKAGE_VERSION]
                        /\ call'.attributes =
                               <<<<"contract_info",
                                   "State { name: \"" \o name \o "\" }">>,
                                 <<"action", "init">>>>
                        /\ call'.messages = <<>>
               /\ name = "" => call'.error = InvalidFields(<<"name">>)
               /\ ~call'.ok => store' = store /\ store' = NoStorage

(* C29: instantiate succeeds if and only if the name is non-empty and no    *)
(* funds are attached.  On success the stored configuration holds the given *)
(* name, the stored contract version is (crate name, package version), and  *)
(* the response carries the attributes contract_info and action = init and  *)
(* no instruction; an empty name fails with InvalidFields ["name"] and      *)
(* attached funds fail with an error, nothing being stored.                 *)
C29_Instantiate == [][InstantiateOutcome]_vars

\* An instantiate has stored the name "please transfer me" and the version
\* of the build.
C29_Witness ==
    /\ call.type = "instantiate"
    /\ call.ok
    /\ call.attributes[1] = <<"contract_info", "State { name: \"please transfer me\" }">>
    /\ from_binary(ContractInfoOf(store).value).name = call.msg.name
    /\ store[CONTRACT].version = PACKAGE_VERSION

----------------------------------------------------------------------------

\* What the ledger holds of a denom for an address: nothing when it has no
\* entry.
LedgerBalanceOf(address, denom) ==
    IF address \in DOMAIN balances /\ denom \in DOMAIN balances[address]
    THEN balances[address][denom]
    ELSE 0

\* The preconditions of a Create that the request of call' violates on the
\* state the call starts from, numbered in the order of the claim.
ViolatedPreconditions ==
    {n \in {1} : InvalidFieldsOf(call'.msg) # {}}
    \cup {n \in {2} : call'.msg.recipient \in ShortAddrs}
    \cup {n \in {3} : ~ReportedRestricted(call'.msg.denom)}
    \cup {n \in {4} : call'.info.funds # <<>>}
    \cup {n \in {5} : LedgerBalanceOf(call'.info.sender, call'.msg.denom) < call'.msg.amount}
    \cup {n \in {6} : call'.msg.id \in DOMAIN store}

\* The error kind each precondition answers with.
PreconditionErrorKind ==
    <<"InvalidFields", "Std", "UnsupportedMarkerType", "SentFundsUnsupported",
      "InsufficientFunds", "InvalidFields">>

FirstViolatedDecides ==
    (Invoked /\ call'.type = "transfer")
        => IF ViolatedPreconditions = {}
           THEN call'.ok
           ELSE LET first == CHOOSE n \in ViolatedPreconditions :
                                 \A m \in ViolatedPreconditions : n <= m
                IN  /\ ~call'.ok
                    /\ call'.error.kind = PreconditionErrorKind[first]
                    /\ first = 1 => SeqToSet(call'.error.fields) = InvalidFieldsOf(call'.msg)
                    /\ first = 6 => call'.error = InvalidFields(<<"id">>)
                    /\ store' = store

(* C30: Create evaluates its preconditions in the fixed order payload       *)
(* validation, recipient address validation, marker is Restricted           *)
(* (UnsupportedMarkerType), no attached funds (SentFundsUnsupported),       *)
(* balance covers the amount (InsufficientFunds), id not already present    *)
(* (InvalidFields ["id"]): when several are violated at once the error      *)
(* returned is that of the first violated check in this order, and when     *)
(* none is violated the call succeeds.                                      *)
C30_CheckOrder == [][FirstViolatedDecides]_vars

\* A Create that violates every precondition after payload validation at
\* once -- recipient not an address, no Restricted marker, funds attached,
\* balance below the amount, id already pending -- has been refused with
\* the address error.
C30_Witness ==
    /\ call.type = "transfer"
    /\ InvalidFieldsOf(call.msg) = {}
    /\ call.msg.recipient \in ShortAddrs
    /\ ~ReportedRestricted(call.msg.denom)
    /\ call.info.funds # <<>>
    /\ balances[call.info.sender][call.msg.denom] < call.msg.amount
    /\ call.msg.id \in DOMAIN store
    /\ call.error = ContractError("Std")

----------------------------------------------------------------------------

\* The sum of the amounts of the records of a denom among the given keys of
\* the Store.
RECURSIVE PendingAmount(_, _)
PendingAmount(keys, denom) ==
    IF keys = {} THEN 0
    ELSE LET k == CHOOSE x \in keys : TRUE
         IN  (IF store[k].denom = denom THEN store[k].amount ELSE 0)
                 + PendingAmount(keys \ {k}, denom)

\* What the instruction of the call still to be run by the Ledger takes out
\* of (positive) or brings into (negative) the contract's account.
OutstandingRelease(denom) ==
    IF call = NoCall \/ ~call.ok \/ call.messages = <<>> THEN 0
    ELSE IF call.messages[1].coin.denom # denom THEN 0
    ELSE IF call.messages[1].from = MOCK_CONTRACT_ADDR
    THEN call.messages[1].coin.amount
    ELSE IF call.messages[1].to = MOCK_CONTRACT_ADDR
    THEN 0 - call.messages[1].coin.amount
    ELSE 0

(* C31: custody.  With the Ledger running every instruction a successful    *)
(* call returns and nothing else moving the contract's account, the         *)
(* contract's balance of each denom is its initial balance (none) plus the  *)
(* sum of the amounts of the pending records of that denom once the         *)
(* instruction of the last call has run; before it has run the balance      *)
(* differs by exactly that instruction, so the instruction of a resolution  *)
(* is covered by the custody balance and no funds back two pending records. *)
C31_Custody ==
    \A denom \in Denoms :
        /\ balances[MOCK_CONTRACT_ADDR][denom]
               = PendingAmount(DOMAIN store, denom) + OutstandingRelease(denom)
        /\ balances[MOCK_CONTRACT_ADDR][denom] >= OutstandingRelease(denom)

\* Two transfers of different denoms are pending and the contract holds the
\* amount of each, taken from the sender.
C31_Witness ==
    /\ call = NoCall
    /\ Cardinality(DOMAIN store) = 2
    /\ \A denom \in Denoms : /\ PendingAmount(DOMAIN store, denom) = 1
                              /\ balances[MOCK_CONTRACT_ADDR][denom] = 1
    /\ balances[SENDER][RESTRICTED_DENOM] = MaxAmount - 1
    /\ balances[SENDER][OTHER_DENOM] = 0

----------------------------------------------------------------------------

\* Every content the registry can have: for each denom no marker, a
\* Restricted marker with or without an administrator, or a marker of
\* another type.
Registries ==
    [Denoms -> UNION {MarkerChoices(d) : d \in Denoms}
                   \cup {Marker("restricted", <<>>)}]

\* The result of a Cancel of the pending id by the record's sender, with no
\* funds attached, were the registry to hold mk.
SenderCancel(id, mk) ==
    execute(store, mk, balances, MOCK_CONTRACT_ADDR,
            MessageInfo(store[id].sender, NoFunds),
            [type |-> "cancel_transfer", id |-> id])

\* No record is left pending by a Cancel of its id that its own sender made
\* with no funds attached.
SenderCancelResolved ==
    (/\ call.type = "cancel_transfer"
     /\ call.info.funds = <<>>
     /\ call.msg.id \in DOMAIN store)
        => store[call.msg.id].sender # call.info.sender

(* C32: the sender can always recover the escrow.  In every reachable state *)
(* in which an invocation can start and for every pending record, a Cancel  *)
(* of its id by the record's sender with no funds attached succeeds         *)
(* whatever the registry holds -- marker removed, no longer Restricted, no  *)
(* administrator left: it removes the record and returns the instruction    *)
(* paying the amount back to the sender, which the custody balance covers;  *)
(* and no such Cancel that was made has left its record pending.            *)
C32_SenderRecovers ==
    /\ SenderCancelResolved
    /\ call = NoCall
          => \A id \in DOMAIN store :
                 \A mk \in Registries :
                     LET out == SenderCancel(id, mk)
                     IN  /\ out.ok
                         /\ id \notin DOMAIN out.store
                         /\ Len(out.messages) = 1
                         /\ out.messages[1].to = store[id].sender
                         /\ out.messages[1].coin = [denom |-> store[id].denom,
                                                    amount |-> store[id].amount]
                         /\ LedgerCovers(balances, out.messages[1])

\* The sender has cancelled a transfer whose denom has no marker any more,
\* while another transfer is still pending.
C32_Witness ==
    /\ call.type = "cancel_transfer"
    /\ call.ok
    /\ call.messages[1].to = call.info.sender
    /\ markers[call.messages[1].coin.denom] = NoMarker
    /\ store # <<>>

----------------------------------------------------------------------------

\* The account the instructions of the call of this step take funds from is
\* the caller for a Create and the contract for a resolution.
SourceIsCallerOrContract ==
    (Invoked /\ call'.ok)
        => \A i \in DOMAIN call'.messages :
               call'.messages[i].from = IF call'.type = "transfer"
                                         THEN call'.info.sender
                                         ELSE MOCK_CONTRACT_ADDR

\* The record a Create stores names its caller as the sender, and the
\* sender of a record that is already stored stays the one who funded it.
SenderIsCreator ==
    /\ (Invoked /\ call'.ok /\ call'.type = "transfer")
           => store'[call'.msg.id].sender = call'.info.sender
    /\ \A id \in DOMAIN store' :
           escrow'[id].instruction.from = store'[id].sender

(* C33: no operation pulls funds from a third party.  Every instruction a   *)
(* call returns takes the funds from the caller of that call (Create) or    *)
(* from the contract's own address (Approve, Reject, Cancel), a failed call *)
(* returns no instruction, and the sender stored in a record is always the  *)
(* caller of the Create that made it -- the account its funds came from --  *)
(* whatever principal the payload names as recipient.                       *)
C33_NoThirdPartySource ==
    [][/\ SourceIsCallerOrContract
       /\ SenderIsCreator
       /\ (Invoked /\ ~call'.ok) => call'.messages = <<>>]_vars

\* A Create naming another principal as recipient has stored its caller as
\* the sender and returned an instruction taking the funds from the caller.
C33_Witness ==
    /\ call.type = "transfer"
    /\ call.ok
    /\ call.msg.recipient # call.info.sender
    /\ store[call.msg.id].sender = call.info.sender
    /\ call.messages[1].from = call.info.sender

----------------------------------------------------------------------------

\* This step is an Approve or Reject of a pending id.
DecisionOnPending ==
    /\ Invoked
    /\ call'.type \in {"approve_transfer", "reject_transfer"}
    /\ call'.msg.id \in DOMAIN store

\* The caller of this step is an administrator of some denom other than the
\* record's and not of the record's own denom.
AdminOfOtherDenomOnly ==
    /\ ~HoldsAdmin(call'.info.sender, store[call'.msg.id].denom)
    /\ \E denom \in Denoms \ {store[call'.msg.id].denom} :
           HoldsAdmin(call'.info.sender, denom)

(* C34 as stated: a caller who holds the Administrator capability only on a *)
(* different denom than the pending record's gets Unauthorized from Approve *)
(* and Reject, the record unchanged, and an administrator of the record's   *)
(* denom can Approve or Reject it whoever created it.                       *)

C34_OtherDenomUnauthorized ==
    [][DecisionOnPending
          => /\ AdminOfOtherDenomOnly
                    => call'.error.kind = "Unauthorized" /\ store' = store
             /\ HoldsAdmin(call'.info.sender, store[call'.msg.id].denom)
                    => call'.ok]_vars

(* C34 amended: administrator rights are checked against the pending        *)
(* record's own denom.  A caller who holds the Administrator capability     *)
(* only on a different denom cannot Approve or Reject the transfer: the     *)
(* call fails, returns no instruction and leaves the record unchanged, with *)
(* SentFundsUnsupported when funds are attached, else the registry's query  *)
(* error when it has no marker for the record's denom, else Unauthorized;   *)
(* an administrator of the record's denom calling with no funds attached    *)
(* succeeds whoever created the record.                                     *)

C34_OwnDenomDecides ==
    [][DecisionOnPending
          => LET denom == store[call'.msg.id].denom
             IN  /\ AdminOfOtherDenomOnly
                        => /\ ~call'.ok
                           /\ store' = store
                           /\ call'.messages = <<>>
                           /\ call'.error.kind =
                                 IF call'.info.funds # <<>> THEN "SentFundsUnsupported"
                                 ELSE IF ~HasMarker(denom) THEN "Std"
                                 ELSE "Unauthorized"
                 /\ (HoldsAdmin(call'.info.sender, denom) /\ call'.info.funds = <<>>)
                        => call'.ok /\ call'.msg.id \notin DOMAIN store']_vars

\* The administrator of the first denom, holding nothing on the second, has
\* been refused the Approve of a pending transfer of the second denom.
C34_Witness ==
    /\ call.type = "approve_transfer"
    /\ call.error.kind = "Unauthorized"
    /\ call.info.sender = ADMIN
    /\ call.msg.id \in DOMAIN store
    /\ store[call.msg.id].denom = OTHER_DENOM
    /\ HoldsAdmin(ADMIN, RESTRICTED_DENOM)
    /\ ~HoldsAdmin(ADMIN, OTHER_DENOM)

----------------------------------------------------------------------------

MissingMarkerFails ==
    (/\ DecisionOnPending
     /\ call'.info.funds = <<>>
     /\ markers[store[call'.msg.id].denom] = NoMarker)
        => /\ ~call'.ok
           /\ call'.error = ContractError("Std")
           /\ call'.error.kind # "Unauthorized"
           /\ call'.messages = <<>>
           /\ call'.writes = <<>>
           /\ store' = store
           /\ escrow'[call'.msg.id].phase = "pending"

(* C35: when the registry has no marker for the pending record's denom at   *)
(* the time of the call, Approve and Reject with no funds attached fail     *)
(* with the registry's query error, which is not Unauthorized, for every    *)
(* caller -- the record's sender, its recipient and the former              *)
(* administrator alike -- and the record stays pending and unchanged.       *)
C35_MissingMarker == [][MissingMarkerFails]_vars

\* The principal who was the administrator when the transfer was created
\* has been refused a Reject with the query error, the marker being gone.
C35_Witness ==
    /\ call.type = "reject_transfer"
    /\ call.info.sender = ADMIN
    /\ call.info.funds = <<>>
    /\ call.error = ContractError("Std")
    /\ call.msg.id \in DOMAIN store
    /\ markers[store[call.msg.id].denom] = NoMarker

----------------------------------------------------------------------------

\* This step is an Approve or Reject of a pending record by an administrator
\* of its denom, whose marker is not of type Restricted.
AdminDecidesOnUnrestricted ==
    /\ DecisionOnPending
    /\ HoldsAdmin(call'.info.sender, store[call'.msg.id].denom)
    /\ markers[store[call'.msg.id].denom].marker_type # "restricted"

(* C36 as stated: Approve and Reject of a pending record by an              *)
(* administrator of its denom succeed even when the denom's marker is no    *)
(* longer of type Restricted at the time of the call.                       *)

C36_UnrestrictedAlwaysDecided ==
    [][AdminDecidesOnUnrestricted => call'.ok]_vars

(* C36 amended: the Restricted marker type is checked only at Create.       *)
(* Approve and Reject of a pending record by an administrator of its denom, *)
(* called with no funds attached, succeed even when the denom's marker is   *)
(* no longer of type Restricted at the time of the call -- the record is    *)
(* removed and the amount paid out -- while a Create on that denom is       *)
(* refused; with funds attached the administrator gets                      *)
(* SentFundsUnsupported, as on a Restricted marker.                         *)

C36_TypeCheckedAtCreateOnly ==
    [][/\ AdminDecidesOnUnrestricted
          => IF call'.info.funds = <<>>
             THEN /\ call'.ok
                  /\ call'.msg.id \notin DOMAIN store'
                  /\ Len(call'.messages) = 1
                  /\ call'.messages[1].coin.amount = store[call'.msg.id].amount
             ELSE call'.error.kind = "SentFundsUnsupported" /\ store' = store
       /\ (/\ Invoked
           /\ call'.type = "transfer"
           /\ call'.msg.denom \in Denoms
           /\ markers[call'.msg.denom].marker_type # "restricted")
             => ~call'.ok /\ store' = store]_vars

\* The administrator has approved a pending transfer whose denom's marker
\* is of another type than Restricted.
C36_Witness ==
    /\ call.type = "approve_transfer"
    /\ call.ok
    /\ call.info.sender = ADMIN
    /\ markers[call.messages[1].coin.denom].marker_type = "coin"

----------------------------------------------------------------------------

(* C37: well-formed records.  Every record any sequence of execute calls    *)
(* leaves in the Store is stored under the key that is its own id, has an   *)
(* id that parses as a UUID, a non-empty denom, an amount of at least 1 and *)
(* a recipient that address validation accepts.                             *)
C37_WellFormedRecords ==
    \A key \in DOMAIN store :
        /\ store[key].id = key
        /\ store[key].id \in Uuids
        /\ store[key].denom # ""
        /\ store[key].amount >= 1
        /\ store[key].recipient \notin ShortAddrs

\* Two records are stored, one of more than one unit, and a Create with a
\* recipient that is not an address has just been refused.
C37_Witness ==
    /\ Cardinality(DOMAIN store) = 2
    /\ \E key \in DOMAIN store : store[key].amount > 1
    /\ call.type = "transfer"
    /\ call.msg.recipient = "x"
    /\ call.msg.amount >= 1
    /\ call.error = ContractError("Std")

----------------------------------------------------------------------------

\* The call of this step leaves the records under every id but its own as
\* they were: none appears, none disappears, none changes.
OtherIdsUntouched ==
    Invoked
        => \A id \in IdStrings \ {call'.msg.id} :
               /\ id \in DOMAIN store' <=> id \in DOMAIN store
               /\ id \in DOMAIN store => store'[id] = store[id]
               /\ escrow'[id] = escrow[id]

(* C38: frame across ids.  A Create, Approve, Reject or Cancel on an id,    *)
(* successful or failed, leaves the presence and every field of the records *)
(* stored under all other ids unchanged, so that transfers under distinct   *)
(* ids are created and resolved in any interleaving without affecting one   *)
(* another's records.                                                       *)
C38_FrameAcrossIds == [][OtherIdsUntouched]_vars

\* A transfer has been approved while the transfer under the other id,
\* created by the same sender, is still pending.
C38_Witness ==
    /\ call.type = "approve_transfer"
    /\ call.ok
    /\ call.msg.id \notin DOMAIN store
    /\ \E id \in Uuids \ {call.msg.id} :
           /\ id \in DOMAIN store
           /\ store[id].sender = call.attributes[5][2]
           /\ escrow[id].phase = "pending"

----------------------------------------------------------------------------

\* This step is a Create whose recipient address validation does not accept.
CreateToInvalidRecipient ==
    /\ Invoked
    /\ call'.type = "transfer"
    /\ call'.msg.recipient \in ShortAddrs

(* C39 as stated: a Create whose recipient is not a syntactically valid     *)
(* principal fails at address validation, before the marker, funds, balance *)
(* and duplicate-id checks, stores no record and issues no instruction.     *)

C39_InvalidRecipientFailsAtAddress ==
    [][CreateToInvalidRecipient
          => /\ call'.error = ContractError("Std")
             /\ store' = store
             /\ call'.messages = <<>>]_vars

(* C39 amended: a Create whose payload passes validation and whose          *)
(* recipient is not a syntactically valid principal fails at address        *)
(* validation, before the marker, funds, balance and duplicate-id checks;   *)
(* a Create with such a recipient whose payload does not pass validation    *)
(* (the recipient empty, or another field invalid) fails with InvalidFields *)
(* instead.  Either way no record is stored and no instruction issued.      *)

C39_InvalidRecipientRefused ==
    [][CreateToInvalidRecipient
          => /\ ~call'.ok
             /\ call'.error = IF /\ call'.msg.id \in Uuids
                                  /\ call'.msg.amount >= 1
                                  /\ call'.msg.denom # ""
                                  /\ call'.msg.recipient # ""
                               THEN ContractError("Std")
                               ELSE [kind |-> "InvalidFields",
                                     fields |-> call'.error.fields]
             /\ store' = store
             /\ call'.writes = <<>>
             /\ call'.messages = <<>>]_vars

\* A Create that nothing but its recipient keeps from succeeding --
\* Restricted marker, no funds, sufficient balance, unused id -- has been
\* refused with the address error.
C39_Witness ==
    /\ call.type = "transfer"
    /\ call.error = ContractError("Std")
    /\ call.msg.recipient = "x"
    /\ ReportedRestricted(call.msg.denom)
    /\ call.info.funds = <<>>
    /\ balances[call.info.sender][call.msg.denom] >= call.msg.amount
    /\ call.msg.id \notin DOMAIN store

====
